---- MODULE Spec2Model ----
(***************************************************************************)
(* Model of agentic-blogger.py: the Reflex session state `State` and its   *)
(* event handler `process_research`, an async generator that the event     *)
(* loop runs cooperatively.  A step of the model is the code between two   *)
(* suspension points of one handler instance (yield at line 65, await at   *)
(* line 67, end of the generator).  requests.post is a blocking call, so   *)
(* lines 69-157 are one step whose input is the endpoint's answer.         *)
(*                                                                         *)
(* Strings are sequences of atoms: "" is <<>>, concatenation is \o, and    *)
(* Python's truth value of a string is Len(s) # 0.                         *)
(***************************************************************************)
EXTENDS Integers, Sequences, FiniteSets, TLC

\* ---- bounds -------------------------------------------------------------
MaxRuns == 2          \* submissions made in one session
MaxQueryLen == 1      \* characters in a submitted topic
MaxTopics == 1        \* entries of RelatedTopics in the stubbed search answer
MaxSearchTopics == 11 \* entries of RelatedTopics when search_tool is called directly

\* ---- string literals of the source ---------------------------------------
SummarizePrefix == <<"Summarize the following research findings: ">>
NoSummaryReturned == <<"No summary returned.">>
GroqApiError == <<"Error with Groq API.">>
DuckDuckGoError == <<"Error fetching data from DuckDuckGo.">>
AlertPrefix == <<"Error during research process: ">>

\* ---- input alphabets -----------------------------------------------------
Whitespace == {" "}
Chars == {" ", "a"}
Queries == UNION {[1..n -> Chars] : n \in 0..MaxQueryLen}

\* option values: <<>> is "absent", <<v>> is "present with value v"
None == <<>>
Some(v) == <<v>>

\* RelatedTopics entries: a result carries "Text", a category group does not
Topics == {[Text |-> Some(<<"Article A">>)], [Text |-> Some(<<"Article B">>)], [Text |-> None]}
DdgResponses ==
    {[status_code |-> 200, RelatedTopics |-> t] :
        t \in UNION {[1..n -> Topics] : n \in 0..MaxTopics}}
    \cup {[status_code |-> 503, RelatedTopics |-> <<>>]}

\* answers of the chat-completion endpoint to requests.post
\*   raises : requests.post raised (connection error)
\*   json   : "invalid" (json() raises), "array" (.get raises), "object"
\*   summary: the body's "summary" key; content: choices[0].message.content
GroqBodies ==
    {[json |-> "invalid", summary |-> None, content |-> None],
     [json |-> "array", summary |-> None, content |-> None]}
    \cup {[json |-> "object", summary |-> s, content |-> c] :
            s \in {None, Some(<<"S1">>)}, c \in {None, Some(<<"C1">>)}}
GroqResponses ==
    {[raises |-> TRUE, status_code |-> 0, body |-> [json |-> "invalid", summary |-> None, content |-> None]]}
    \cup {[raises |-> FALSE, status_code |-> 200, body |-> b] : b \in GroqBodies}
    \cup {[raises |-> FALSE, status_code |-> 500,
           body |-> [json |-> "object", summary |-> None, content |-> None]]}

VARIABLES
    research_result,   \* State.research_result
    processing,        \* State.processing
    result_ready,      \* State.result_ready
    run,               \* the instances of process_research, by submission order
    nextRun,           \* number of the next submission
    calls,             \* outbound HTTP calls issued so far, in order
    finished,          \* runs that reached line 152, in order
    ddg,               \* what the search provider answers in this session
    search_output      \* what a call of search_tool returned, if one was made

vars == <<research_result, processing, result_ready, run, nextRun, calls, finished, ddg, search_output>>

Runs == 1..MaxRuns

\* the three fields of State as the UI sees them
Snapshot(p, rr, res) == [processing |-> p, result_ready |-> rr, research_result |-> res]

NotStarted ==
    [pc |-> "new", query_text |-> <<>>, first |-> None, resp |-> None,
     wrote |-> None, ret |-> None, alert |-> None]

\* ---- pure parts of the code ----------------------------------------------
RECURSIVE Join(_)
\* "\n".join(texts)
Join(texts) ==
    IF Len(texts) = 0 THEN <<>>
    ELSE IF Len(texts) = 1 THEN texts[1]
    ELSE texts[1] \o <<"\n">> \o Join(Tail(texts))

HasText(topic) == Len(topic.Text) = 1

RECURSIVE Texts(_)
\* [topic.get("Text", "") for topic in related_topics if "Text" in topic]
Texts(related_topics) ==
    IF Len(related_topics) = 0 THEN <<>>
    ELSE IF HasText(Head(related_topics))
         THEN <<Head(related_topics).Text[1]>> \o Texts(Tail(related_topics))
         ELSE Texts(Tail(related_topics))

\* search_tool, lines 39-49, applied to the provider's response
search_tool(response) ==
    IF response.status_code = 200
    THEN Join(Texts(response.RelatedTopics))
    ELSE DuckDuckGoError

\* `not query_text`, line 56
NotQuery(query_text) == Len(query_text) = 0

\* lines 61-62
ResetStatesKeepReady == [processing |-> TRUE, result_ready |-> result_ready]
ResetStatesNoSpinner == [processing |-> FALSE, result_ready |-> FALSE]
ResetStates == [processing |-> TRUE, result_ready |-> FALSE]

\* the message content of the payload, line 140
PayloadContent == SummarizePrefix \o research_result

\* which exception lines 144-147 raise for this answer, if any
Raised(resp) ==
    IF resp.raises THEN Some(<<"ConnectionError">>)
    ELSE IF resp.status_code = 200 /\ resp.body.json = "invalid" THEN Some(<<"JSONDecodeError">>)
    ELSE IF resp.status_code = 200 /\ resp.body.json = "array" THEN Some(<<"AttributeError">>)
    ELSE None

\* lines 146-149: the text stored for an answer that raised nothing
GroqResultSameMessage(resp) ==
    IF resp.status_code = 200
    THEN IF Len(resp.body.summary) = 1 THEN resp.body.summary[1] ELSE GroqApiError
    ELSE GroqApiError
GroqResult(resp) ==
    IF resp.status_code = 200
    THEN IF Len(resp.body.summary) = 1 THEN resp.body.summary[1] ELSE NoSummaryReturned
    ELSE GroqApiError

\* the assignment to self.research_result, lines 147 and 149
StoreAppended(r, text) == research_result \o text
StoreUnlessSuperseded(r, text) == IF nextRun = r + 1 THEN text ELSE research_result
Store(r, text) == text

\* ---- actions --------------------------------------------------------------
Init ==
    /\ research_result = <<>>
    /\ processing = FALSE
    /\ result_ready = FALSE
    /\ run = [r \in Runs |-> NotStarted]
    /\ nextRun = 1
    /\ calls = <<>>
    /\ finished = <<>>
    /\ ddg \in DdgResponses
    /\ search_output = None

\* the reset of lines 61-62 placed before the check of line 56
process_researchResetFirst(query_text) ==
    /\ nextRun \in Runs
    /\ nextRun' = nextRun + 1
    /\ result_ready' = ResetStates.result_ready
    /\ IF NotQuery(query_text)
       THEN /\ run' = [run EXCEPT ![nextRun] =
                         [@ EXCEPT !.pc = "returned", !.query_text = query_text,
                                   !.ret = Some(Snapshot(processing, result_ready', research_result))]]
            /\ UNCHANGED <<research_result, processing>>
       ELSE /\ processing' = ResetStates.processing
            /\ run' = [run EXCEPT ![nextRun] =
                         [@ EXCEPT !.pc = "yield65", !.query_text = query_text,
                                   !.first = Some(Snapshot(processing', result_ready', research_result))]]
            /\ UNCHANGED research_result
    /\ UNCHANGED <<calls, finished, ddg, search_output>>
\* lines 52-65: the form is submitted; the handler runs to its first yield
process_research(query_text) ==
    /\ nextRun \in Runs
    /\ nextRun' = nextRun + 1
    /\ IF NotQuery(query_text)
       THEN /\ run' = [run EXCEPT ![nextRun] =
                         [@ EXCEPT !.pc = "returned", !.query_text = query_text,
                                   !.ret = Some(Snapshot(processing, result_ready, research_result))]]
            /\ UNCHANGED <<research_result, processing, result_ready>>
       ELSE /\ result_ready' = ResetStates.result_ready
            /\ processing' = ResetStates.processing
            /\ run' = [run EXCEPT ![nextRun] =
                         [@ EXCEPT !.pc = "yield65", !.query_text = query_text,
                                   !.first = Some(Snapshot(processing', result_ready', research_result))]]
            /\ UNCHANGED research_result
    /\ UNCHANGED <<calls, finished, ddg, search_output>>

\* lines 65-67: resumed after the yield, the handler awaits asyncio.sleep(1)
Sleep(r) ==
    /\ run[r].pc = "yield65"
    /\ run' = [run EXCEPT ![r].pc = "sleep67"]
    /\ UNCHANGED <<research_result, processing, result_ready, nextRun, calls, finished, ddg, search_output>>

\* the try block with another exception path: the run ends at pcx with
\* processing = px, result_ready = rx and the alert ax
ResearchVariant(r, resp, pcx, px, rx, ax) ==
    /\ run[r].pc = "sleep67"
    /\ calls' = Append(calls, [run |-> r, kind |-> "POST", content |-> PayloadContent])
    /\ IF Len(Raised(resp)) = 0
       THEN /\ research_result' = Store(r, GroqResult(resp))
            /\ processing' = FALSE
            /\ result_ready' = TRUE
            /\ finished' = Append(finished, r)
            /\ run' = [run EXCEPT ![r] =
                         [@ EXCEPT !.pc = "returned", !.resp = Some(resp),
                                   !.wrote = Some(GroqResult(resp)),
                                   !.ret = Some(Snapshot(processing', result_ready', research_result'))]]
       ELSE /\ processing' = px
            /\ result_ready' = rx
            /\ run' = [run EXCEPT ![r] =
                         [@ EXCEPT !.pc = pcx, !.resp = Some(resp), !.alert = ax,
                                   !.ret = Some(Snapshot(processing', result_ready', research_result))]]
            /\ UNCHANGED <<research_result, finished>>
    /\ UNCHANGED <<nextRun, ddg, search_output>>
\* no except clause: the exception leaves the generator
ResearchUncaught(r, resp) ==
    ResearchVariant(r, resp, "raised", processing, result_ready, None)
\* the except clause forgets processing = False
ResearchKeepsSpinner(r, resp) ==
    ResearchVariant(r, resp, "returned", processing, result_ready,
                    Some(AlertPrefix \o Raised(resp)[1]))
\* lines 151-152 run on the exception path too, as in a finally clause
ResearchFinally(r, resp) ==
    ResearchVariant(r, resp, "returned", FALSE, TRUE, Some(AlertPrefix \o Raised(resp)[1]))
\* lines 69-157: the try block, with resp the endpoint's answer to the POST
Research(r, resp) ==
    /\ run[r].pc = "sleep67"
    /\ calls' = Append(calls, [run |-> r, kind |-> "POST", content |-> PayloadContent])
    /\ IF Len(Raised(resp)) = 0
       THEN /\ research_result' = Store(r, GroqResult(resp))
            /\ processing' = FALSE
            /\ result_ready' = TRUE
            /\ finished' = Append(finished, r)
            /\ run' = [run EXCEPT ![r] =
                         [@ EXCEPT !.pc = "returned", !.resp = Some(resp),
                                   !.wrote = Some(GroqResult(resp)),
                                   !.ret = Some(Snapshot(processing', result_ready', research_result'))]]
       ELSE /\ processing' = FALSE
            /\ run' = [run EXCEPT ![r] =
                         [@ EXCEPT !.pc = "returned", !.resp = Some(resp),
                                   !.alert = Some(AlertPrefix \o Raised(resp)[1]),
                                   !.ret = Some(Snapshot(processing', result_ready, research_result))]]
            /\ UNCHANGED <<research_result, result_ready, finished>>
    /\ UNCHANGED <<nextRun, ddg, search_output>>

Submit == \E q \in Queries : process_research(q)
Resume == \E r \in Runs : Sleep(r)
Pipeline == \E r \in Runs : \E resp \in GroqResponses : Research(r, resp)

Next == Submit \/ Resume \/ Pipeline

Spec == Init /\ [][Next]_vars

\* one submission at a time: the form is submitted again only after the
\* previous handler has returned
InFlight(r) == run[r].pc \in {"yield65", "sleep67"}
SubmitAfterReturn == (\A r \in Runs : ~InFlight(r)) /\ Submit
NextSeq == SubmitAfterReturn \/ Resume \/ Pipeline
SpecSeq == Init /\ [][NextSeq]_vars

\* every handler that is resumable is resumed, and every POST is answered
Fairness ==
    \A r \in Runs :
        /\ WF_vars(Sleep(r))
        /\ WF_vars(\E resp \in GroqResponses : Research(r, resp))
SpecFair == Spec /\ Fairness

\* search_tool called on its own, on answers with up to MaxSearchTopics
\* entries of which any may lack "Text"
SearchTopic(i, hasText) == [Text |-> IF hasText THEN Some(<<ToString(i)>>) ELSE None]
SearchInputs ==
    {[status_code |-> 200, RelatedTopics |-> [i \in 1..n |-> SearchTopic(i, m[i])]] :
        n \in 0..MaxSearchTopics, m \in [1..MaxSearchTopics -> BOOLEAN]}
InitSearch ==
    /\ research_result = <<>>
    /\ processing = FALSE
    /\ result_ready = FALSE
    /\ run = [r \in Runs |-> NotStarted]
    /\ nextRun = 1
    /\ calls = <<>>
    /\ finished = <<>>
    /\ ddg \in SearchInputs
    /\ search_output = None
\* lines 39-49: one call of the tool, its GET answered by ddg
CallSearchTool ==
    /\ search_output = None
    /\ calls' = Append(calls, [run |-> 0, kind |-> "GET", content |-> <<>>])
    /\ search_output' = Some(search_tool(ddg))
    /\ UNCHANGED <<research_result, processing, result_ready, run, nextRun, finished, ddg>>
NextSearch == CallSearchTool
SpecSearch == InitSearch /\ [][NextSearch]_vars

\* ---- vocabulary of the properties ------------------------------------------
IsBlank(q) == \A i \in 1..Len(q) : q[i] \in Whitespace
Started(r) == run[r].pc # "new"
Returned(r) == run[r].pc = "returned"
Accepted(r) == Started(r) /\ Len(run[r].first) = 1
CallsOf(r, kind) == {i \in DOMAIN calls : calls[i].run = r /\ calls[i].kind = kind}
Answered(r) == Returned(r) /\ Len(run[r].resp) = 1 /\ ~run[r].resp[1].raises
NoResultsFound == <<"no relevant research results found">>
\* the message a returned run left for the user: its alert, else what it stored
TerminalMessage(r) == IF Len(run[r].alert) = 1 THEN run[r].alert[1] ELSE run[r].wrote[1]

\* C1: a submission whose query is empty or only whitespace issues no
\* outbound call (neither GET nor POST) and has result_ready false when it
\* returns.
C1_BlankQueryRejected ==
    \A r \in Runs :
        (Started(r) /\ IsBlank(run[r].query_text)) =>
            /\ CallsOf(r, "GET") \cup CallsOf(r, "POST") = {}
            /\ Returned(r) => ~run[r].ret[1].result_ready

\* C2: whenever a run issues an outbound call, that run has already yielded
\* processing = true and result_ready = false to the UI in an earlier step.
C2_ProcessingShownBeforeCall ==
    [][\A i \in (DOMAIN calls') \ (DOMAIN calls) :
          LET r == calls'[i].run IN
            /\ Len(run[r].first) = 1
            /\ run[r].first[1].processing
            /\ ~run[r].first[1].result_ready]_vars
C2_Witness ==
    \E i \in DOMAIN calls :
        /\ run[calls[i].run].first = Some(Snapshot(TRUE, FALSE, <<>>))
        /\ Returned(calls[i].run)

\* C3: the text embedded in every summarization request is the output of the
\* Search Step that the same submission ran before it.
C3_SummarizesOwnSearch ==
    \A i \in DOMAIN calls :
        calls[i].kind = "POST" =>
            /\ \E j \in 1..(i - 1) : calls[j].kind = "GET" /\ calls[j].run = calls[i].run
            /\ calls[i].content = SummarizePrefix \o search_tool(ddg)

\* C4: every accepted submission that has returned made exactly one search
\* call, and no summarization request is sent by a run that has not searched
\* before it.
C4_SearchOnceBeforeSummarize ==
    /\ \A r \in Runs : (Accepted(r) /\ Returned(r)) => Cardinality(CallsOf(r, "GET")) = 1
    /\ \A i \in DOMAIN calls :
          calls[i].kind = "POST" =>
              \E j \in 1..(i - 1) : calls[j].kind = "GET" /\ calls[j].run = calls[i].run

\* C5: an accepted submission whose search yields zero extractable snippets
\* ends with the fixed "no relevant research results found" message and sends
\* no summarization request.
C5_EmptySearchShortCircuits ==
    \A r \in Runs :
        (Accepted(r) /\ Returned(r) /\ ddg.status_code = 200
           /\ Len(Texts(ddg.RelatedTopics)) = 0) =>
            /\ run[r].ret[1].research_result = NoResultsFound
            /\ CallsOf(r, "POST") = {}

\* C6: a submission run alone whose summarization answer is HTTP 200 with a
\* chat-completion content c ends with processing false, result_ready true
\* and research_result = c.
C6_ContentBecomesResult ==
    (nextRun = 2 /\ Answered(1) /\ run[1].resp[1].status_code = 200
       /\ run[1].resp[1].body.json = "object" /\ Len(run[1].resp[1].body.content) = 1) =>
        run[1].ret[1] = Snapshot(FALSE, TRUE, run[1].resp[1].body.content[1])

\* C7: a run whose summarization answer is not HTTP 200 does not end Ready:
\* result_ready is false when it returns.
C7_TransportErrorIsFailed ==
    \A r \in Runs :
        (Answered(r) /\ run[r].resp[1].status_code # 200) => ~run[r].ret[1].result_ready

\* answer classes of the summarization endpoint
ShapeError(r) ==
    Answered(r) /\ run[r].resp[1].status_code = 200 /\ Len(run[r].resp[1].body.summary) = 0
TransportError(r) == Answered(r) /\ run[r].resp[1].status_code # 200
\* C8: the message left by a run whose answer is HTTP 200 without the
\* "summary" field differs from the message left by any run whose answer is
\* not HTTP 200.
C8_ShapeErrorDistinct ==
    \A r1, r2 \in Runs :
        (ShapeError(r1) /\ TransportError(r2)) => TerminalMessage(r1) # TerminalMessage(r2)
C8_Witness ==
    \E r1, r2 \in Runs :
        /\ ShapeError(r1) /\ run[r1].resp[1].body.json = "object"
        /\ TransportError(r2)

\* C9: processing and result_ready are never both true, in the session state
\* and in every snapshot a run has shown.
C9_OneStateActive ==
    /\ ~(processing /\ result_ready)
    /\ \A r \in Runs :
          /\ Len(run[r].first) = 1 => ~(run[r].first[1].processing /\ run[r].first[1].result_ready)
          /\ Len(run[r].ret) = 1 => ~(run[r].ret[1].processing /\ run[r].ret[1].result_ready)
C9_Witness ==
    /\ processing
    /\ finished # <<>>
    /\ \E r \in Runs : run[r].pc = "sleep67"

FixedStubs ==
    \A a, b \in Runs :
        /\ (Started(a) /\ Started(b)) => run[a].query_text = run[b].query_text
        /\ (Len(run[a].resp) = 1 /\ Len(run[b].resp) = 1) => run[a].resp = run[b].resp

\* C11: when the submissions of a session are made one after another with
\* the same query and get the same summarization answer, every one of them
\* returns with the same research_result.
C11_Idempotent ==
    FixedStubs =>
        \A a, b \in Runs :
            (Returned(a) /\ Returned(b)) =>
                run[a].ret[1].research_result = run[b].ret[1].research_result
C11_Witness ==
    /\ FixedStubs
    /\ \A r \in Runs : Returned(r) /\ Len(run[r].wrote) = 1
    /\ run[1].first[1].research_result # run[2].first[1].research_result
    /\ calls[1].content # calls[2].content

\* the first n elements of a sequence
FirstN(seq, n) == SubSeq(seq, 1, IF Len(seq) < n THEN Len(seq) ELSE n)

\* C12: what search_tool returns for a 200 answer is the first 10 extractable
\* snippets of the answer, in the provider's order, and no more.
C12_FirstTenSnippets ==
    (Len(search_output) = 1 /\ ddg.status_code = 200) =>
        search_output[1] = Join(FirstN(Texts(ddg.RelatedTopics), 10))

\* C13: a run whose try block raised has returned normally, with processing
\* false at its return and the alert "Error during research process: " + the
\* exception text.
C13_ExceptionCaught ==
    \A r \in Runs :
        (Len(run[r].resp) = 1 /\ Len(Raised(run[r].resp[1])) = 1) =>
            /\ Returned(r)
            /\ ~run[r].ret[1].processing
            /\ run[r].alert = Some(AlertPrefix \o Raised(run[r].resp[1])[1])
C13_Witness ==
    \E r \in Runs :
        /\ Returned(r)
        /\ Len(run[r].resp) = 1
        /\ Raised(run[r].resp[1]) = Some(<<"JSONDecodeError">>)
        /\ run[r].alert = Some(<<"Error during research process: ", "JSONDecodeError">>)

\* C14: whenever result_ready is false, research_result holds no summary.
C14_SummaryOnlyWhenReady ==
    ~result_ready => research_result = <<>>

\* C15: every accepted submission eventually returns, and whenever no run is
\* in flight processing is false.
C15_Terminates ==
    /\ \A r \in Runs : Accepted(r) ~> Returned(r)
    /\ []((\A r \in Runs : ~InFlight(r)) => ~processing)
C15_Witness ==
    /\ \A r \in Runs : Accepted(r) /\ Returned(r)
    /\ Len(finished) >= 2 /\ finished[1] = 2 /\ finished[2] = 1
    /\ ~processing

\* C16: a step in which an empty-query submission is made and returns leaves
\* processing, result_ready and research_result as they were.
C16_RejectionFrame ==
    [][\A r \in Runs :
          (run[r].pc = "new" /\ run'[r].pc = "returned" /\ Len(run'[r].query_text) = 0) =>
              UNCHANGED <<processing, result_ready, research_result>>]_vars
C16_Witness ==
    \E r \in Runs :
        /\ Started(r) /\ ~Accepted(r) /\ Returned(r)
        /\ run[r].ret[1].result_ready
        /\ Len(run[r].ret[1].research_result) > 0
        /\ result_ready

\* C17: the step in which a run ends through the exception handler sets
\* processing to false and changes neither research_result nor result_ready;
\* when submissions are made one after another, such a run returns with the
\* research_result it started with and with result_ready false.
C17_FailureFrame ==
    /\ [][\A r \in Runs :
            (Len(run[r].alert) = 0 /\ Len(run'[r].alert) = 1) =>
                /\ ~processing'
                /\ UNCHANGED <<research_result, result_ready>>]_vars
    /\ [](\A r \in Runs :
            Len(run[r].alert) = 1 =>
                /\ run[r].ret[1].research_result = run[r].first[1].research_result
                /\ ~run[r].ret[1].result_ready)
C17_Witness ==
    \E r \in Runs :
        /\ Len(run[r].alert) = 1
        /\ Len(run[r].ret[1].research_result) > 0
        /\ ~result_ready

====
